---- MODULE Spec2Model ----
(***************************************************************************)
(* The write tool of internal/llm/tools (writeTool.Run) as a state machine *)
(* over a shared filesystem, the timestamp registry, the per-session       *)
(* version store and the permission service.  The calls of the tool, the   *)
(* agent's reads and an out-of-band editor interleave at the granularity   *)
(* of the calls Run makes on shared state (os.Stat with getLastReadTime,   *)
(* os.ReadFile,                                                            *)
(* os.MkdirAll, permissions.Request, os.WriteFile, the history calls, the  *)
(* registry updates, the diagnostics wait).                                *)
(*                                                                         *)
(* Environment: os.Stat answers "regular file", "directory" or "does not   *)
(* exist"; os.ReadFile fails exactly when the file has been removed; the   *)
(* failures of os.MkdirAll (when it has a directory to create),            *)
(* os.WriteFile and the history service are nondeterministic.              *)
(* Time is a clock of finite resolution: two events between two ticks      *)
(* carry the same timestamp.                                               *)
(*                                                                         *)
(* Spec runs one call at a time against the editor, the agent's reads and  *)
(* the clock; SpecHist is Spec with the ledger of writes and edits kept;   *)
(* SpecConc runs two calls at once; SpecScope computes the path of the     *)
(* permission request; SpecLocal is the discovery of the local models.     *)
(***************************************************************************)
EXTENDS Integers, Sequences, FiniteSets, TLC

VARIABLES
    now,        \* the clock
    files,      \* path -> the file on disk
    dirs,       \* the directories that exist
    lastRead,   \* timestamp registry: path -> last recorded read (0: none)
    lastWrite,  \* timestamp registry: path -> last recorded write (0: none)
    history,    \* version store: (session, path) -> sequence of contents
    run,        \* run slot -> the locals and the position of a Run call
    prev,       \* the call that returned last, while nothing has happened since
    events,     \* calls begun plus environment events so far
    ledger,     \* what has happened to each (session, path) so far
    scope,      \* the permission path computed for a target path
    disc        \* local model discovery: its inputs, position and registrations

vars == <<now, files, dirs, lastRead, lastWrite, history, run, prev, events, ledger,
          scope, disc>>

----------------------------------------------------------------------------
(* Bounds of the model *)

\* Calls begun plus environment events (out-of-band edits, agent reads,
\* clock ticks) in one behaviour.
MaxEvents == 4

----------------------------------------------------------------------------
(* The domain *)

Procs == {1}

WorkingDirectory == "/w"
P1 == "/w/output.txt"
P2 == "/x/new/f.txt"
FilePaths == {P1, P2}

Contents == {"a", "b"}

Sessions == {"s1"}

\* GetContextValues(ctx): the (session id, message id) of the call context.
CtxValues == {<<"s1", "m1">>, <<"", "m1">>, <<"s1", "">>}

\* call.Input: a payload json.Unmarshal rejects, or the decoded WriteParams.
\* (parsed = FALSE: Unmarshal returns an error.)
FilePathInputs == {"", P2, WorkingDirectory}
Malformed == [parsed |-> FALSE, file_path |-> "", content |-> ""]
Inputs == {Malformed} \cup
          [parsed : {TRUE}, file_path : FilePathInputs, content : Contents \cup {""}]

\* filepath.Dir
Dir(p) == IF p = P1 THEN "/w" ELSE IF p = P2 THEN "/x/new" ELSE "/"

\* generateDefaultFilename: none of the patterns matches "", "a" or "b".
generateDefaultFilename(content) == "output.txt"

\* filepath.IsAbs / filepath.Join(config.WorkingDirectory(), filePath)
IsAbs(p) == p \in {P1, P2, WorkingDirectory}
Join(d, p) == IF d = WorkingDirectory /\ p = "output.txt" THEN P1 ELSE p

\* params.FilePath after the default-name step, made absolute.
FilePathOf(params) ==
    LET fp == IF params.file_path = "" THEN generateDefaultFilename(params.content)
              ELSE params.file_path
    IN IF IsAbs(fp) THEN fp ELSE Join(WorkingDirectory, fp)

----------------------------------------------------------------------------
(* Responses *)

\* kind: "text" (NewTextResponse), "textError" (NewTextErrorResponse, nil
\* error), "error" (ToolResponse{}, err).
Response(kind, what) == [kind |-> kind, what |-> what]
NoResponse == Response("none", "none")

RespParse == Response("textError", "parse")
RespContentRequired == Response("textError", "contentRequired")
RespIsDirectory == Response("textError", "isDirectory")
RespStale == Response("textError", "stale")
RespNoOp_Success == Response("text", "noop")
RespNoOp == Response("textError", "noop")
RespMkdirError == Response("error", "mkdirError")
RespConfigError == Response("error", "configError")
RespPermissionDenied == Response("error", "permissionDenied")
RespWriteError == Response("error", "writeError")
RespHistoryError == Response("error", "historyError")
RespSuccess == Response("text", "success")

----------------------------------------------------------------------------
(* State *)

NoFile == [exists |-> FALSE, content |-> "", modTime |-> 0, ext |-> FALSE]

IdleRun ==
    [pc |-> "idle", call |-> Malformed, ctx |-> <<"", "">>, filePath |-> "",
     content |-> "", hasInfo |-> FALSE, modTime |-> 0, lastReadSeen |-> 0,
     guarded |-> FALSE, sameAtStat |-> FALSE, compared |-> "no", oldContent |-> "", fileContent |-> "",
     decision |-> "none", wrote |-> "no", lost |-> FALSE, created |-> "no",
     history0 |-> <<>>, lastWrite0 |-> 0, disturbed |-> FALSE, diag |-> "none",
     found |-> "none", asked |-> <<>>, stored |-> <<>>,
     canceled |-> FALSE, raced |-> FALSE, overtook |-> FALSE,
     eff |-> <<>>, response |-> NoResponse]

NoPrev == [ok |-> FALSE, filePath |-> "", content |-> "", session |-> ""]

\* Per (session, path): pre, the content on disk just before the session's
\* first file write to the path (<<>>: it has not written yet; "" stands for
\* no file); writes, the session's successful write runs; edits, the
\* out-of-band edits that changed the content since the session's first
\* successful write.  The ledger is kept only where it is on.
NoLedger ==
    [on |-> FALSE,
     pre |-> [k \in Sessions \X FilePaths |-> <<>>],
     writes |-> [k \in Sessions \X FilePaths |-> 0],
     edits |-> [k \in Sessions \X FilePaths |-> 0]]

Noted(entry) == IF ledger.on THEN entry ELSE ledger

\* Outside their own specifications the permission-path and the
\* model-discovery state stay as they are here.
NoScope == [pc |-> "off", filePath |-> <<>>, permissionPath |-> <<>>]
NoDisc == [pc |-> "off"]

Init ==
    /\ now = 1
    /\ files \in {[p \in FilePaths |-> NoFile],
                  [p \in FilePaths |-> IF p = P1
                        THEN [exists |-> TRUE, content |-> "a", modTime |-> 1, ext |-> TRUE]
                        ELSE NoFile]}
    /\ dirs = {WorkingDirectory}
    /\ lastRead = [p \in FilePaths |-> 0]
    /\ lastWrite = [p \in FilePaths |-> 0]
    /\ history = [k \in Sessions \X FilePaths |-> <<>>]
    /\ run = [r \in Procs |-> IdleRun]
    /\ prev = NoPrev
    /\ events = 0
    /\ ledger = NoLedger
    /\ scope = NoScope
    /\ disc = NoDisc

\* An out-of-band edit or an agent read of path p: it separates the calls on
\* p before it from those after it.
Disturb(p) ==
    /\ prev' = IF prev.filePath = p THEN NoPrev ELSE prev
    /\ run' = [r \in DOMAIN run |->
                 IF run[r].filePath = p /\ run[r].wrote = "ok"
                 THEN [run[r] EXCEPT !.disturbed = TRUE] ELSE run[r]]

Upd(r, rec) == run' = [run EXCEPT ![r] = rec]
Finish(r, rec, resp) == Upd(r, [rec EXCEPT !.pc = "done", !.response = resp])
Log(rec, e) == Append(rec.eff, e)

----------------------------------------------------------------------------
(* The environment: the clock, the out-of-band editor, the agent's reads *)

\* The timestamps in use: a tick is observable only once something carries
\* the current time.
Stamps == {files[p].modTime : p \in FilePaths} \cup {lastRead[p] : p \in FilePaths}

Tick ==
    /\ events < MaxEvents
    /\ now \in Stamps
    /\ now' = now + 1
    /\ events' = events + 1
    /\ UNCHANGED <<files, dirs, lastRead, lastWrite, history, run, prev, ledger, scope, disc>>

\* An out-of-band (non-agent) write: the file gets the content and the
\* current time as its modification time.
ExternalWrite(p, c) ==
    /\ events < MaxEvents
    /\ events' = events + 1
    /\ files' = [files EXCEPT ![p] =
                    [exists |-> TRUE, content |-> c, modTime |-> now, ext |-> TRUE]]
    /\ dirs' = dirs \cup {Dir(p)}
    /\ Disturb(p)
    /\ ledger' = Noted([ledger EXCEPT !.edits =
                     [k \in Sessions \X FilePaths |->
                         IF /\ k[2] = p
                            /\ ledger.writes[k] > 0
                            /\ ~(files[p].exists /\ files[p].content = c)
                         THEN @[k] + 1 ELSE @[k]]])
    /\ UNCHANGED <<now, lastRead, lastWrite, history, scope, disc>>

\* An out-of-band removal of the file.
ExternalDelete(p) ==
    /\ events < MaxEvents
    /\ files[p].exists
    /\ events' = events + 1
    /\ files' = [files EXCEPT ![p] = NoFile]
    /\ Disturb(p)
    /\ UNCHANGED <<now, dirs, lastRead, lastWrite, history, ledger, scope, disc>>

\* The timestamp registry.  No record reads as the zero time.
getLastReadTime(p) == lastRead[p]
recordFileRead(reg, p) == [reg EXCEPT ![p] = now]
recordFileWrite(reg, p) == [reg EXCEPT ![p] = now]

\* The agent reads an existing file (the view tool): the read is recorded.
AgentRead(p) ==
    /\ events < MaxEvents
    /\ files[p].exists
    /\ lastRead[p] # now
    /\ events' = events + 1
    /\ lastRead' = recordFileRead(lastRead, p)
    /\ Disturb(p)
    /\ UNCHANGED <<now, files, dirs, lastWrite, history, ledger, scope, disc>>

----------------------------------------------------------------------------
(* writeTool.Run, step by step *)

\* modTime.After(lastRead)
IsStale_AtOrAfter(modTime, lastReadTime) == modTime >= lastReadTime
IsStale_OnlyAfterARead(modTime, lastReadTime) ==
    lastReadTime > 0 /\ modTime > lastReadTime
IsStale(modTime, lastReadTime) == modTime > lastReadTime

\* readErr == nil && string(oldContent) == params.Content
SameContent_Never(readOk, onDisk, content) == FALSE
SameContent(readOk, onDisk, content) == readOk /\ onDisk = content

\* if !p { return ToolResponse{}, permission.ErrorPermissionDenied }
Denied_Ignored(p) == FALSE
Denied(p) == ~p

\* if err != nil { return ToolResponse{}, fmt.Errorf("error writing file: ...") }
WriteFailed_Ignored(ok) == FALSE
WriteFailed(ok) == ~ok

\* if params.Content == "" { return NewTextErrorResponse("content is required") }
ContentMissing_Never(params) == FALSE
ContentMissing(params) == params.content = ""

\* The versions stored for (session, path); none without a session.
Versions(sid, p) == IF <<sid, p>> \in DOMAIN history THEN history[<<sid, p>>] ELSE <<>>

\* Unmarshal, the default file name, "content is required", the absolute path,
\* for a call drawn from the given inputs and call contexts.
BeginWith(r, inputs, ctxs) ==
    /\ run[r].pc = "idle"
    /\ events < MaxEvents
    /\ events' = events + 1
    /\ \E input \in inputs, ctx \in ctxs :
          LET rec == [run[r] EXCEPT !.call = input, !.ctx = ctx] IN
          IF ~input.parsed
          THEN Finish(r, rec, RespParse)
          ELSE IF ContentMissing(input)
          THEN Finish(r, rec, RespContentRequired)
          ELSE LET p == FilePathOf(input) IN
               Upd(r, [rec EXCEPT !.pc = "stat",
                                  !.filePath = p,
                                  !.content = input.content,
                                  !.history0 = Versions(ctx[1], p),
                                  !.lastWrite0 = IF p \in FilePaths
                                                 THEN lastWrite[p] ELSE 0])
    /\ UNCHANGED <<now, files, dirs, lastRead, lastWrite, history, prev, ledger, scope, disc>>

Begin(r) == BeginWith(r, Inputs, CtxValues)

\* Stat as it would be if the guard recorded its look at the file as a read.
Stat_RecordsRead(r) ==
    /\ run[r].pc = "stat"
    /\ LET p == run[r].filePath IN
       IF p \in dirs
       THEN Finish(r, run[r], RespIsDirectory) /\ UNCHANGED lastRead
       ELSE IF p \in FilePaths /\ files[p].exists
       THEN LET rec == [run[r] EXCEPT !.hasInfo = TRUE,
                                      !.modTime = files[p].modTime,
                                      !.lastReadSeen = getLastReadTime(p),
                                      !.guarded = TRUE,
                                      !.sameAtStat = (files[p].content = run[r].content),
                                      !.eff = Log(run[r], "stat") \o <<"rec">>] IN
            /\ lastRead' = recordFileRead(lastRead, p)
            /\ IF IsStale(rec.modTime, rec.lastReadSeen)
               THEN Finish(r, rec, RespStale)
               ELSE Upd(r, [rec EXCEPT !.pc = "compare"])
       ELSE /\ Upd(r, [run[r] EXCEPT !.pc = "mkdir", !.eff = Log(run[r], "stat")])
            /\ UNCHANGED lastRead
    /\ UNCHANGED <<now, files, dirs, lastWrite, history, prev, events, ledger, scope, disc>>

\* fileInfo, err := os.Stat(filePath); for a regular file,
\* lastRead := getLastReadTime(filePath); if modTime.After(lastRead) {...}
Stat(r) ==
    /\ run[r].pc = "stat"
    /\ LET p == run[r].filePath IN
       IF p \in dirs
       THEN Finish(r, run[r], RespIsDirectory)
       ELSE IF p \in FilePaths /\ files[p].exists
       THEN LET rec == [run[r] EXCEPT !.hasInfo = TRUE,
                                      !.modTime = files[p].modTime,
                                      !.lastReadSeen = getLastReadTime(p),
                                      !.guarded = TRUE,
                                      !.sameAtStat = (files[p].content = run[r].content),
                                      !.eff = Log(run[r], "stat")] IN
            IF IsStale(rec.modTime, rec.lastReadSeen)
            THEN Finish(r, rec, RespStale)
            ELSE Upd(r, [rec EXCEPT !.pc = "compare"])
       ELSE Upd(r, [run[r] EXCEPT !.pc = "mkdir", !.eff = Log(run[r], "stat")])
    /\ UNCHANGED <<now, files, dirs, lastRead, lastWrite, history, prev, events, ledger, scope, disc>>

\* oldContent, readErr := os.ReadFile(filePath); identical content ends the run.
Compare(r) ==
    /\ run[r].pc = "compare"
    /\ LET p == run[r].filePath
           readOk == files[p].exists
           rec == [run[r] EXCEPT !.compared =
                      IF ~readOk THEN "err"
                      ELSE IF files[p].content = run[r].content THEN "same"
                      ELSE "diff"] IN
       IF SameContent(readOk, files[p].content, run[r].content)
       THEN Finish(r, rec, RespNoOp)
       ELSE Upd(r, [rec EXCEPT !.pc = "mkdir"])
    /\ UNCHANGED <<now, files, dirs, lastRead, lastWrite, history, prev, events, ledger, scope, disc>>

\* os.MkdirAll(filepath.Dir(filePath), 0o755)
MkdirAll(r) ==
    /\ run[r].pc = "mkdir"
    /\ LET d == Dir(run[r].filePath) IN
       \/ /\ d \in dirs
          /\ Upd(r, [run[r] EXCEPT !.pc = "request"])
          /\ UNCHANGED dirs
       \/ /\ d \notin dirs
          /\ dirs' = dirs \cup {d}
          /\ Upd(r, [run[r] EXCEPT !.pc = "request", !.eff = Log(run[r], "mkdir")])
       \/ /\ d \notin dirs
          /\ Finish(r, run[r], RespMkdirError)
          /\ UNCHANGED dirs
    /\ UNCHANGED <<now, files, lastRead, lastWrite, history, prev, events, ledger, scope, disc>>

\* Another run is waiting for the decision on a request for another path.
OthersPending(r) ==
    \E q \in DOMAIN run \ {r} :
        run[q].pc = "pending" /\ run[q].filePath # run[r].filePath

\* Request as it would be if the permission service took one request at a
\* time.
Request_OneAtATime(r) ==
    /\ run[r].pc = "request"
    /\ \A q \in DOMAIN run : run[q].pc # "pending"
    /\ LET p == run[r].filePath
           rec == [run[r] EXCEPT !.oldContent = IF run[r].hasInfo /\ files[p].exists
                                                THEN files[p].content ELSE ""] IN
       IF rec.ctx[1] = "" \/ rec.ctx[2] = ""
       THEN Finish(r, rec, RespConfigError)
       ELSE Upd(r, [rec EXCEPT !.pc = "pending", !.eff = Log(run[r], "perm"),
                               !.overtook = OthersPending(r)])
    /\ UNCHANGED <<now, files, dirs, lastRead, lastWrite, history, prev, events, ledger, scope, disc>>

\* oldContent := ""; if fileInfo != nil && !fileInfo.IsDir() { os.ReadFile };
\* GetContextValues; diff.GenerateDiff; w.permissions.Request(...) is issued.
Request(r) ==
    /\ run[r].pc = "request"
    /\ LET p == run[r].filePath
           rec == [run[r] EXCEPT !.oldContent = IF run[r].hasInfo /\ files[p].exists
                                                THEN files[p].content ELSE ""] IN
       IF rec.ctx[1] = "" \/ rec.ctx[2] = ""
       THEN Finish(r, rec, RespConfigError)
       ELSE Upd(r, [rec EXCEPT !.pc = "pending", !.eff = Log(run[r], "perm"),
                               !.overtook = OthersPending(r)])
    /\ UNCHANGED <<now, files, dirs, lastRead, lastWrite, history, prev, events, ledger, scope, disc>>

\* The approver answers the pending request; Request returns p.
Resolve(r, p) ==
    /\ run[r].pc = "pending"
    /\ LET rec == [run[r] EXCEPT !.decision = IF p THEN "granted" ELSE "denied"]
           res == IF Denied(p)
                  THEN [rec EXCEPT !.pc = "done", !.response = RespPermissionDenied]
                  ELSE [rec EXCEPT !.pc = "write"] IN
       run' = [q \in DOMAIN run |->
                 IF q = r THEN res ELSE [run[q] EXCEPT !.overtook = FALSE]]
    /\ UNCHANGED <<now, files, dirs, lastRead, lastWrite, history, prev, events, ledger, scope, disc>>

\* The call's context is canceled while Run is inside permissions.Request,
\* which is not given the context: Run stays where it is.
Cancel(r) ==
    /\ run[r].pc = "pending"
    /\ ~run[r].canceled
    /\ events < MaxEvents
    /\ events' = events + 1
    /\ Upd(r, [run[r] EXCEPT !.canceled = TRUE])
    /\ UNCHANGED <<now, files, dirs, lastRead, lastWrite, history, prev, ledger, scope, disc>>

Key(rec) == <<rec.ctx[1], rec.filePath>>

\* The target holds an out-of-band edit the agent has not seen: its content
\* comes from an external write stamped later than the last recorded read.
UnseenEdit(p) ==
    /\ files[p].exists
    /\ files[p].ext
    /\ lastRead[p] > 0
    /\ files[p].modTime > lastRead[p]

\* Run q has passed its guard on the path of run r against the same
\* last-read time as r, and has not written the file yet.
SameGuard(q, r) ==
    /\ q # r
    /\ run[q].filePath = run[r].filePath
    /\ run[q].guarded /\ run[r].guarded
    /\ run[q].lastReadSeen = run[r].lastReadSeen
    /\ run[q].pc \in {"compare", "mkdir", "request", "pending", "write"}

\* err = os.WriteFile(filePath, []byte(params.Content), 0o644)
WriteFile(r, ok) ==
    /\ run[r].pc = "write"
    /\ LET p == run[r].filePath
           rec == [run[r] EXCEPT !.wrote = IF ok THEN "ok" ELSE "failed"] IN
       IF WriteFailed(ok)
       THEN /\ Finish(r, rec, RespWriteError)
            /\ UNCHANGED <<files, ledger>>
       ELSE /\ IF ok
               THEN /\ files' = [files EXCEPT ![p] =
                           [exists |-> TRUE, content |-> run[r].content,
                            modTime |-> now, ext |-> FALSE]]
                    /\ ledger' = IF ledger.pre[Key(run[r])] = <<>>
                                 THEN Noted([ledger EXCEPT !.pre[Key(run[r])] =
                                         <<IF files[p].exists THEN files[p].content ELSE "">>])
                                 ELSE ledger
               ELSE UNCHANGED <<files, ledger>>
            /\ run' = [q \in DOMAIN run |->
                         IF q = r
                         THEN [rec EXCEPT !.pc = "getlatest",
                                          !.lost = ok /\ UnseenEdit(p),
                                          !.eff = IF ok THEN Log(run[r], "write") ELSE @]
                         ELSE IF ok /\ SameGuard(q, r)
                         THEN [run[q] EXCEPT !.raced = TRUE]
                         ELSE run[q]]
    /\ UNCHANGED <<now, dirs, lastRead, lastWrite, history, prev, events, scope, disc>>

----------------------------------------------------------------------------
(* The version store (history.Service) *)

\* CreateVersion appends a snapshot to the (session, path) sequence.
AppendVersion(h, k, c) == [h EXCEPT ![k] = Append(@, c)]

\* file, err := w.files.GetByPathAndSession(ctx, filePath, sessionID)
\* (err: no version for the pair, or the store fails; file is then the
\* zero value).
GetLatest(r) ==
    /\ run[r].pc = "getlatest"
    /\ LET k == Key(run[r]) IN
       \/ /\ history[k] # <<>>
          /\ Upd(r, [run[r] EXCEPT !.pc = "drift", !.found = "yes",
                                   !.fileContent = history[k][Len(history[k])]])
       \/ /\ history[k] = <<>>
          /\ Upd(r, [run[r] EXCEPT !.pc = "create", !.found = "no", !.fileContent = ""])
       \/ /\ history[k] # <<>>
          /\ Upd(r, [run[r] EXCEPT !.pc = "create", !.found = "no", !.fileContent = ""])
    /\ UNCHANGED <<now, files, dirs, lastRead, lastWrite, history, prev, events, ledger, scope, disc>>

\* _, err = w.files.Create(ctx, sessionID, filePath, oldContent); an error
\* (a version exists already, or the store fails) is returned to the caller.
Create(r) ==
    /\ run[r].pc = "create"
    /\ LET k == Key(run[r]) IN
       \/ /\ history[k] = <<>>
          /\ history' = [history EXCEPT ![k] = <<run[r].oldContent>>]
          /\ Upd(r, [run[r] EXCEPT !.pc = "drift", !.created = "ok",
                                   !.asked = Append(@, run[r].oldContent),
                                   !.stored = Append(@, run[r].oldContent),
                                   !.eff = Log(run[r], "create")])
       \/ /\ history[k] = <<>>
          /\ UNCHANGED history
          /\ Finish(r, [run[r] EXCEPT !.created = "failed",
                                      !.asked = Append(@, run[r].oldContent)],
                    RespHistoryError)
       \/ /\ history[k] # <<>>
          /\ UNCHANGED history
          /\ Finish(r, [run[r] EXCEPT !.created = "failed",
                                      !.asked = Append(@, run[r].oldContent)],
                    RespHistoryError)
    /\ UNCHANGED <<now, files, dirs, lastRead, lastWrite, prev, events, ledger, scope, disc>>

\* Drift as it would be if the on-disk content were never compared with the
\* latest version.
Drift_Never(r) ==
    /\ run[r].pc = "drift"
    /\ UNCHANGED history
    /\ Upd(r, [run[r] EXCEPT !.pc = "append"])
    /\ UNCHANGED <<now, files, dirs, lastRead, lastWrite, prev, events, ledger, scope, disc>>

\* if file.Content != oldContent { w.files.CreateVersion(..., oldContent) }
\* (an error is logged)
Drift(r) ==
    /\ run[r].pc = "drift"
    /\ LET k == Key(run[r]) IN
       \/ /\ run[r].fileContent = run[r].oldContent
          /\ UNCHANGED history
          /\ Upd(r, [run[r] EXCEPT !.pc = "append"])
       \/ /\ run[r].fileContent # run[r].oldContent
          /\ history' = AppendVersion(history, k, run[r].oldContent)
          /\ Upd(r, [run[r] EXCEPT !.pc = "append",
                                   !.asked = Append(@, run[r].oldContent),
                                   !.stored = Append(@, run[r].oldContent),
                                   !.eff = Log(run[r], "version")])
       \/ /\ run[r].fileContent # run[r].oldContent
          /\ UNCHANGED history
          /\ Upd(r, [run[r] EXCEPT !.pc = "append",
                                   !.asked = Append(@, run[r].oldContent)])
    /\ UNCHANGED <<now, files, dirs, lastRead, lastWrite, prev, events, ledger, scope, disc>>

\* _, err = w.files.CreateVersion(ctx, sessionID, filePath, params.Content)
\* (an error is logged)
AppendNew(r) ==
    /\ run[r].pc = "append"
    /\ LET k == Key(run[r]) IN
       \/ /\ history' = AppendVersion(history, k, run[r].content)
          /\ Upd(r, [run[r] EXCEPT !.pc = "record",
                                   !.asked = Append(@, run[r].content),
                                   !.stored = Append(@, run[r].content),
                                   !.eff = Log(run[r], "version")])
       \/ /\ UNCHANGED history
          /\ Upd(r, [run[r] EXCEPT !.pc = "record",
                                   !.asked = Append(@, run[r].content)])
    /\ UNCHANGED <<now, files, dirs, lastRead, lastWrite, prev, events, ledger, scope, disc>>

\* waitForLspDiagnostics / getDiagnostics: what the backends answer.
DiagOutcomes == {"noBackend", "timeout", "failed", "found"}

\* Record as it would be without the recordFileRead call.
Record_WriteOnly(r) ==
    /\ run[r].pc = "record"
    /\ lastWrite' = recordFileWrite(lastWrite, run[r].filePath)
    /\ UNCHANGED lastRead
    /\ \E d \in DiagOutcomes :
          Finish(r, [run[r] EXCEPT !.diag = d,
                                   !.eff = Log(run[r], "rec") \o <<"diag">>], RespSuccess)
    /\ ledger' = Noted([ledger EXCEPT !.writes[Key(run[r])] = @ + 1])
    /\ UNCHANGED <<now, files, dirs, history, prev, events, scope, disc>>

\* Record as it would be if a diagnostics timeout or failure failed the run.
Record_DiagnosticsGate(r) ==
    /\ run[r].pc = "record"
    /\ lastWrite' = recordFileWrite(lastWrite, run[r].filePath)
    /\ lastRead' = recordFileRead(lastRead, run[r].filePath)
    /\ \E d \in DiagOutcomes :
          Finish(r, [run[r] EXCEPT !.diag = d,
                                   !.eff = Log(run[r], "rec") \o <<"diag">>],
                 IF d \in {"timeout", "failed"} THEN RespWriteError ELSE RespSuccess)
    /\ ledger' = Noted([ledger EXCEPT !.writes[Key(run[r])] = @ + 1])
    /\ UNCHANGED <<now, files, dirs, history, prev, events, scope, disc>>

\* recordFileWrite(filePath); recordFileRead(filePath); the diagnostics
\* wait; the success response.
Record(r) ==
    /\ run[r].pc = "record"
    /\ lastWrite' = recordFileWrite(lastWrite, run[r].filePath)
    /\ lastRead' = recordFileRead(lastRead, run[r].filePath)
    /\ \E d \in DiagOutcomes :
          Finish(r, [run[r] EXCEPT !.diag = d,
                                   !.eff = Log(run[r], "rec") \o <<"diag">>], RespSuccess)
    /\ ledger' = Noted([ledger EXCEPT !.writes[Key(run[r])] = @ + 1])
    /\ UNCHANGED <<now, files, dirs, history, prev, events, scope, disc>>

\* Run has returned; the slot is free for the next call.
Return(r) ==
    /\ run[r].pc = "done"
    /\ Upd(r, IdleRun)
    /\ prev' = IF run[r].response = RespSuccess /\ ~run[r].disturbed
               THEN [ok |-> TRUE, filePath |-> run[r].filePath,
                     content |-> run[r].content, session |-> run[r].ctx[1]]
               ELSE NoPrev
    /\ UNCHANGED <<now, files, dirs, lastRead, lastWrite, history, events, ledger, scope, disc>>

----------------------------------------------------------------------------

Next ==
    \/ Tick
    \/ \E p \in FilePaths, c \in Contents : ExternalWrite(p, c)
    \/ \E p \in FilePaths : ExternalDelete(p)
    \/ \E p \in FilePaths : AgentRead(p)
    \/ \E r \in Procs : Begin(r)
    \/ \E r \in Procs : Stat(r)
    \/ \E r \in Procs : Compare(r)
    \/ \E r \in Procs : MkdirAll(r)
    \/ \E r \in Procs : Request(r)
    \/ \E r \in Procs, p \in BOOLEAN : Resolve(r, p)
    \/ \E r \in Procs, ok \in BOOLEAN : WriteFile(r, ok)
    \/ \E r \in Procs : GetLatest(r)
    \/ \E r \in Procs : Create(r)
    \/ \E r \in Procs : Drift(r)
    \/ \E r \in Procs : AppendNew(r)
    \/ \E r \in Procs : Record(r)
    \/ \E r \in Procs : Return(r)

Spec == Init /\ [][Next]_vars

----------------------------------------------------------------------------
(* The same calls and environment, with the ledger kept. *)

InitHist ==
    /\ now = 1
    /\ files \in {[p \in FilePaths |-> NoFile],
                  [p \in FilePaths |-> IF p = P1
                        THEN [exists |-> TRUE, content |-> "a", modTime |-> 1, ext |-> TRUE]
                        ELSE NoFile]}
    /\ dirs = {WorkingDirectory}
    /\ lastRead = [p \in FilePaths |-> 0]
    /\ lastWrite = [p \in FilePaths |-> 0]
    /\ history = [k \in Sessions \X FilePaths |-> <<>>]
    /\ run = [r \in Procs |-> IdleRun]
    /\ prev = NoPrev
    /\ events = 0
    /\ ledger = [NoLedger EXCEPT !.on = TRUE]
    /\ scope = NoScope
    /\ disc = NoDisc

SpecHist == InitHist /\ [][Next]_vars

----------------------------------------------------------------------------
(* Two calls of the tool running at once, for one session: each slot takes  *)
(* one well-formed call; the agent's reads, the clock and the cancellation  *)
(* of a waiting call are the environment.                                   *)

Writers == {1, 2}

\* The two calls write different contents.
ConcContent(r) == IF r = 1 THEN "b" ELSE "a"
ConcInputs(r) == [parsed : {TRUE}, file_path : {"", P2}, content : {ConcContent(r)}]
ConcCtxValues == {<<"s1", "m1">>}

InitConc ==
    /\ now = 1
    /\ files \in {[p \in FilePaths |-> NoFile],
                  [p \in FilePaths |-> IF p = P1
                        THEN [exists |-> TRUE, content |-> "a", modTime |-> 1, ext |-> TRUE]
                        ELSE NoFile]}
    /\ dirs = {WorkingDirectory}
    /\ lastRead = [p \in FilePaths |-> 0]
    /\ lastWrite = [p \in FilePaths |-> 0]
    /\ history = [k \in Sessions \X FilePaths |-> <<>>]
    /\ run = [r \in Writers |-> IdleRun]
    /\ prev = NoPrev
    /\ events = 0
    /\ ledger = NoLedger
    /\ scope = NoScope
    /\ disc = NoDisc

\* The slots are interchangeable: they are taken in order.
BeginConc(r) ==
    /\ \A q \in Writers : q < r => run[q].pc # "idle"
    /\ BeginWith(r, ConcInputs(r), ConcCtxValues)

NextConc ==
    \/ Tick
    \/ \E p \in FilePaths : AgentRead(p)
    \/ \E r \in Writers : BeginConc(r)
    \/ \E r \in Writers : Stat(r)
    \/ \E r \in Writers : Compare(r)
    \/ \E r \in Writers : MkdirAll(r)
    \/ \E r \in Writers : Request(r)
    \/ \E r \in Writers, p \in BOOLEAN : Resolve(r, p)
    \/ \E r \in Writers : Cancel(r)
    \/ \E r \in Writers, ok \in BOOLEAN : WriteFile(r, ok)
    \/ \E r \in Writers : GetLatest(r)
    \/ \E r \in Writers : Create(r)
    \/ \E r \in Writers : Drift(r)
    \/ \E r \in Writers : AppendNew(r)
    \/ \E r \in Writers : Record(r)

SpecConc == InitConc /\ [][NextConc]_vars

----------------------------------------------------------------------------
(* The path of the permission request, on paths spelled out as sequences   *)
(* of characters.                                                          *)

\* The longest target path.
MaxPathLen == 6

PathChars == {"/", "w", "x"}

\* config.WorkingDirectory(): "/w"
RootDir == <<"/", "w">>

\* Absolute, clean file paths: a leading separator, no empty element, no
\* trailing separator.
CleanPaths ==
    {s \in UNION {[1..n -> PathChars] : n \in 2..MaxPathLen} :
        /\ s[1] = "/"
        /\ s[Len(s)] # "/"
        /\ \A i \in 1..(Len(s) - 1) : ~(s[i] = "/" /\ s[i + 1] = "/")}

\* strings.HasPrefix
HasPrefix(s, prefix) ==
    Len(s) >= Len(prefix) /\ SubSeq(s, 1, Len(prefix)) = prefix

\* filepath.Dir of a clean absolute path
DirOf(s) ==
    LET i == CHOOSE k \in 1..Len(s) :
                 s[k] = "/" /\ \A m \in (k + 1)..Len(s) : s[m] # "/"
    IN IF i = 1 THEN <<"/">> ELSE SubSeq(s, 1, i - 1)

\* permissionPath := filepath.Dir(filePath)
\* if strings.HasPrefix(filePath, rootDir) { permissionPath = rootDir }
PermissionPath(filePath, rootDir) ==
    IF HasPrefix(filePath, rootDir) THEN rootDir ELSE DirOf(filePath)

\* The state of the calls of the tool, untouched by the steps below.
pipeline == <<now, files, dirs, lastRead, lastWrite, history, run, prev, events, ledger>>

PipelineIdle ==
    /\ now = 1
    /\ files = [p \in FilePaths |-> NoFile]
    /\ dirs = {WorkingDirectory}
    /\ lastRead = [p \in FilePaths |-> 0]
    /\ lastWrite = [p \in FilePaths |-> 0]
    /\ history = [k \in Sessions \X FilePaths |-> <<>>]
    /\ run = [r \in Procs |-> IdleRun]
    /\ prev = NoPrev
    /\ events = 0
    /\ ledger = NoLedger

InitScope ==
    /\ PipelineIdle
    /\ disc = NoDisc
    /\ scope \in [pc : {"path"}, filePath : CleanPaths, permissionPath : {<<>>}]

ScopeRequest ==
    /\ scope.pc = "path"
    /\ scope' = [scope EXCEPT !.pc = "request",
                              !.permissionPath = PermissionPath(scope.filePath, RootDir)]
    /\ UNCHANGED <<pipeline, disc>>

NextScope == ScopeRequest

SpecScope == InitScope /\ [][NextScope]_vars

----------------------------------------------------------------------------
(* Discovery of the local models (package models, init).                   *)

\* The longest list of models an endpoint returns.
MaxModels == 2

ProviderLocal == "local"
localModelsPath == "v1/models"
lmStudioBetaModelsPath == "api/v0/models"

Agents == {"coder", "summarizer", "task", "title"}

\* LOCAL_ENDPOINT: unset, a URL, a URL with a query, and one url.Parse
\* rejects (no scheme before the colon).
Endpoints == {"", "http://h", "http://h?k", ":bad"}
ParseFails(endpoint) == endpoint = ":bad"
HasQuery(endpoint) == endpoint = "http://h?k"

ModelIDs == {"qwen", "phi"}

\* What an endpoint lists: LM Studio gives loaded_context_length for a
\* loaded model only.
LocalModels ==
    {[ID |-> id, Object |-> "model", Type |-> t, State |-> st,
      LoadedContextLength |-> IF st = "loaded" THEN 8192 ELSE 0] :
        id \in ModelIDs, t \in {"llm", "embeddings"}, st \in {"loaded", "not-loaded"}}

ModelLists == UNION {[1..n -> LocalModels] : n \in 0..MaxModels}

\* The outcome of the GET: a failure (request, status or decoding), or a
\* decoded list.
Responses ==
    {[ok |-> FALSE, data |-> <<>>]} \cup {[ok |-> TRUE, data |-> d] : d \in ModelLists}

\* strings.HasSuffix(modelsEndpoint, lmStudioBetaModelsPath), where
\* modelsEndpoint is the endpoint with its path replaced: the URL ends
\* with the path unless a query follows it.
EndsWithBetaPath(endpoint, path) ==
    path = lmStudioBetaModelsPath /\ ~HasQuery(endpoint)

Supported(model) == model.Object = "model" /\ model.Type = "llm"

listLocalModels(endpoint, path, res) ==
    IF ~res.ok THEN <<>>
    ELSE IF EndsWithBetaPath(endpoint, path)
         THEN SelectSeq(res.data, LAMBDA model : Supported(model))
         ELSE res.data

\* cmp.Or
cmpOr(a, b) == IF a # 0 THEN a ELSE b

\* convertLocalModel, without the display name.
convertLocalModel(model) ==
    [ID |-> "local." \o model.ID,
     Provider |-> ProviderLocal,
     APIModel |-> model.ID,
     ContextWindow |-> cmpOr(model.LoadedContextLength, 4096),
     DefaultMaxTokens |-> cmpOr(model.LoadedContextLength, 4096),
     CanReason |-> TRUE,
     SupportsAttachments |-> TRUE]

\* The model useHardcodedModel makes up.
fallbackModel(env, cfg) ==
    [ID |-> IF env # "" THEN env ELSE IF cfg # "" THEN cfg ELSE "Qwen3-32B",
     Object |-> "model", Type |-> "llm", State |-> "loaded",
     LoadedContextLength |-> 32768]

\* len(models) == 0
NoModels_Never(models) == FALSE
NoModels(models) == Len(models) = 0

\* i == 0 || m.State == "loaded", for the i-th model counted from one
IsDefaultCandidate_FirstOnly(i, m) == i = 1
IsDefaultCandidate(i, m) == i = 1 \/ m.State = "loaded"

EmptyMap == [k \in {} |-> k]
Put(map, k, v) == [x \in DOMAIN map \cup {k} |-> IF x = k THEN v ELSE map[x]]

InitLocal ==
    /\ PipelineIdle
    /\ scope = NoScope
    /\ disc \in [pc : {"init"},
                  endpoint : Endpoints,
                  env : {"", "qwen"},
                  cfg : {"", "phi"},
                  consulted : {<<>>},
                  beta : {<<>>},
                  models : {<<>>},
                  i : {1},
                  via : {"none"},
                  SupportedModels : {EmptyMap},
                  defaults : {[a \in Agents |-> ""]},
                  apiKey : {""}]

\* if endpoint := os.Getenv("LOCAL_ENDPOINT"); endpoint != ""
GetEndpoint ==
    /\ disc.pc = "init"
    /\ disc' = [disc EXCEPT !.pc = IF disc.endpoint = "" THEN "done" ELSE "parse"]
    /\ UNCHANGED <<pipeline, scope>>

ParseEndpoint ==
    /\ disc.pc = "parse"
    /\ disc' = [disc EXCEPT !.pc = IF ParseFails(disc.endpoint) THEN "hardcoded" ELSE "beta"]
    /\ UNCHANGED <<pipeline, scope>>

\* models := load(localEndpoint, lmStudioBetaModelsPath)
LoadBeta ==
    /\ disc.pc = "beta"
    /\ \E res \in Responses :
         LET models == listLocalModels(disc.endpoint, lmStudioBetaModelsPath, res)
         IN disc' = [disc EXCEPT !.consulted = Append(@, lmStudioBetaModelsPath),
                                 !.beta = models,
                                 !.models = models,
                                 !.via = "listed",
                                 !.pc = IF NoModels(models) THEN "v1" ELSE "register"]
    /\ UNCHANGED <<pipeline, scope>>

\* if len(models) == 0 { models = load(localEndpoint, localModelsPath) }
\* if len(models) == 0 { useHardcodedModel(); return }
LoadV1 ==
    /\ disc.pc = "v1"
    /\ \E res \in Responses :
         LET models == listLocalModels(disc.endpoint, localModelsPath, res)
         IN disc' = [disc EXCEPT !.consulted = Append(@, localModelsPath),
                                 !.models = models,
                                 !.pc = IF NoModels(models) THEN "hardcoded" ELSE "register"]
    /\ UNCHANGED <<pipeline, scope>>

useHardcodedModel ==
    /\ disc.pc = "hardcoded"
    /\ disc' = [disc EXCEPT !.models = <<fallbackModel(disc.env, disc.cfg)>>,
                            !.via = "hardcoded",
                            !.pc = "register"]
    /\ UNCHANGED <<pipeline, scope>>

\* One turn of the loop of loadLocalModels.
loadLocalModels ==
    /\ disc.pc = "register"
    /\ disc.i <= Len(disc.models)
    /\ LET m == disc.models[disc.i]
           model == convertLocalModel(m)
       IN disc' = [disc EXCEPT !.SupportedModels = Put(@, model.ID, model),
                               !.defaults = IF IsDefaultCandidate(disc.i, m)
                                            THEN [a \in Agents |-> model.ID]
                                            ELSE @,
                               !.i = @ + 1]
    /\ UNCHANGED <<pipeline, scope>>

\* The loop is over: viper.SetDefault("providers.local.apiKey", "dummy")
Loaded ==
    /\ disc.pc = "register"
    /\ disc.i > Len(disc.models)
    /\ disc' = [disc EXCEPT !.apiKey = "dummy", !.pc = "done"]
    /\ UNCHANGED <<pipeline, scope>>

NextLocal ==
    \/ GetEndpoint
    \/ ParseEndpoint
    \/ LoadBeta
    \/ LoadV1
    \/ useHardcodedModel
    \/ loadLocalModels
    \/ Loaded

SpecLocal == InitLocal /\ [][NextLocal]_vars

----------------------------------------------------------------------------
(* Properties *)

Done(r) == run[r].pc = "done"

\* What a run has done so far, its os.Stat of the target aside: "mkdir"
\* (a directory created), "perm" (a permission request issued), "write" (the
\* file written), "create" / "version" (a version stored), "rec" (the
\* timestamp registry updated), "diag".
Effects(r) == {run[r].eff[i] : i \in 1..Len(run[r].eff)} \ {"stat"}

\* The version history and the last-write record of the run's target are
\* what they were when the run began.
Untouched(r) ==
    /\ Versions(run[r].ctx[1], run[r].filePath) = run[r].history0
    /\ lastWrite[run[r].filePath] = run[r].lastWrite0

\* C1: no lost updates: no run overwrites a file that holds an out-of-band
\* write made (by its modification time) after the agent's last recorded read
\* of the path, whether the write landed before the run or while the run was
\* waiting for its permission.
C1_NoLostUpdate == \A r \in Procs : ~run[r].lost

\* C2: a run whose permission request is denied has changed nothing on the
\* filesystem: it has written no file and created no directory.
C2_DeniedNoFilesystemChange ==
    \A r \in Procs :
        run[r].decision = "denied" => Effects(r) \cap {"write", "mkdir"} = {}

\* C3: a denied permission request ends the run with the PermissionDenied
\* error, and the run has changed neither the version store nor the
\* timestamp registry.
C3_DeniedEndsRun ==
    \A r \in Procs :
        run[r].decision = "denied" =>
            /\ Done(r)
            /\ run[r].response = RespPermissionDenied
            /\ Effects(r) \cap {"write", "create", "version", "rec"} = {}
            /\ Untouched(r)

C3_Witness == \E r \in Procs : run[r].decision = "denied" /\ Done(r)

\* C4 as claimed: a run whose content is identical to the content on disk
\* (when the run looks at the file) requests no permission, stores no
\* version, writes nothing and reports "no changes made".
C4_IdenticalReportsNoOp ==
    \A r \in Procs :
        Done(r) /\ run[r].sameAtStat =>
            /\ run[r].response.what = "noop"
            /\ Effects(r) \cap {"perm", "create", "version", "write"} = {}

\* C4 as amended: a run that is not rejected as stale and then reads on-disk
\* content identical to its own ends there, reporting "no changes made",
\* with no permission request, no version and no file write.
C4_NoOpAfterGuard ==
    \A r \in Procs :
        run[r].compared = "same" =>
            /\ Done(r)
            /\ run[r].response.what = "noop"
            /\ Effects(r) \cap {"perm", "create", "version", "write"} = {}

C4_Witness == \E r \in Procs : run[r].compared = "same" /\ run[r].response.what = "noop"

Repeats(r) ==
    /\ prev.ok
    /\ run[r].pc # "idle"
    /\ run[r].filePath = prev.filePath
    /\ run[r].content = prev.content
    /\ run[r].ctx[1] = prev.session

\* C6: the same content written to the same path twice in a row: the second
\* run is not rejected as stale, requests no permission, stores no version
\* and ends reporting "no changes made".
C6_SecondWriteIsNoOp ==
    \A r \in Procs :
        Repeats(r) =>
            /\ run[r].pc \in {"stat", "compare", "done"}
            /\ Done(r) => run[r].response.what = "noop"
            /\ Effects(r) = {}

C6_Witness == \E r \in Procs : Repeats(r) /\ Done(r) /\ run[r].response.what = "noop"

\* C7: a run that finds a regular file is rejected as stale exactly when the
\* modification time it found is later than the last-read time it found
\* (equal times are not stale); a run that finds no file is never stale.
C7_StaleIffModifiedAfterRead ==
    \A r \in Procs :
        /\ run[r].guarded =>
              (run[r].response.what = "stale" <=> run[r].modTime > run[r].lastReadSeen)
        /\ ~run[r].guarded => run[r].response.what # "stale"

C7_Witness ==
    \E r \in Procs :
        /\ run[r].guarded
        /\ run[r].modTime = run[r].lastReadSeen
        /\ run[r].response.what = "success"

\* C8: a run rejected as stale has written no file, created no directory,
\* issued no permission request, stored no version and updated no timestamp.
C8_StaleIsReadOnly ==
    \A r \in Procs :
        run[r].response.what = "stale" => Done(r) /\ Effects(r) = {} /\ Untouched(r)

C8_Witness == \E r \in Procs : run[r].response.what = "stale" /\ run[r].sameAtStat

\* C9: a failed file write ends the run as a tool failure, and the run has
\* changed neither the version store nor the timestamp registry.
C9_WriteFailureNoBookkeeping ==
    \A r \in Procs :
        run[r].wrote = "failed" =>
            /\ Done(r)
            /\ run[r].response = RespWriteError
            /\ Effects(r) \cap {"write", "create", "version", "rec"} = {}
            /\ Untouched(r)

C9_Witness == \E r \in Procs : run[r].wrote = "failed" /\ Done(r)

\* C10: once the file write has succeeded the run ends with the success
\* response, whatever the history operations answer.
C10_HistoryNeverFailsCall ==
    \A r \in Procs :
        Done(r) /\ run[r].wrote = "ok" => run[r].response = RespSuccess

\* C11: the first version stored for a (session, path) pair holds the
\* content that was on disk just before the session's first file write to
\* the path (the empty string when there was no file).
C11_FirstVersionIsPreImage ==
    \A k \in Sessions \X FilePaths :
        history[k] # <<>> /\ ledger.pre[k] # <<>> => history[k][1] = ledger.pre[k][1]

\* C12: a successful run that found no version for its (session, path) has
\* handed the store exactly two versions, the on-disk content it read before
\* the write ("" for a new file) and then the content it wrote, and the
\* pair's history is what the store accepted of them.
C12_FirstMutationTwoVersions ==
    \A r \in Procs :
        run[r].response = RespSuccess /\ run[r].found = "no" =>
            /\ run[r].asked = <<run[r].oldContent, run[r].content>>
            /\ history[Key(run[r])] = run[r].stored

\* C13: a successful run that found a latest version for its (session, path)
\* hands the store the on-disk content it read before the write and then the
\* content it wrote, in that order, when the latest version differs from
\* that on-disk content, and only the content it wrote when they are equal;
\* what the store accepts is appended to the history the run found.
C13_DriftCapture ==
    \A r \in Procs :
        run[r].response = RespSuccess /\ run[r].found = "yes" =>
            /\ run[r].asked = IF run[r].fileContent # run[r].oldContent
                              THEN <<run[r].oldContent, run[r].content>>
                              ELSE <<run[r].content>>
            /\ history[Key(run[r])] = run[r].history0 \o run[r].stored

C13_Witness ==
    \E r \in Procs :
        /\ run[r].response = RespSuccess
        /\ run[r].found = "yes"
        /\ run[r].oldContent # ""
        /\ run[r].fileContent # run[r].oldContent
        /\ run[r].stored = <<run[r].oldContent, run[r].content>>

\* No write run is in progress.
Quiet == \A r \in DOMAIN run : run[r].pc \in {"idle", "done"}

\* C14: whenever the file was last written by the agent and no run is in
\* progress, the history of a (session, path) holds at least one version for
\* each successful write of the session and one for each out-of-band edit
\* that changed the file since the session's first successful write.
C14_HistoryComplete ==
    \A k \in Sessions \X FilePaths :
        /\ Quiet
        /\ ledger.writes[k] > 0
        /\ files[k[2]].exists
        /\ ~files[k[2]].ext
        => Len(history[k]) >= ledger.writes[k] + ledger.edits[k]

\* The call in slot r follows the call that returned last, which succeeded
\* on the same path with another content; nothing has read or modified the
\* path since, and the call carries its session and message ids.
Rewrites(r) ==
    /\ prev.ok
    /\ run[r].pc # "idle"
    /\ run[r].filePath = prev.filePath
    /\ run[r].content # prev.content
    /\ run[r].ctx[1] # "" /\ run[r].ctx[2] # ""

\* C15: a write of different content that follows a successful write to the
\* same path, with no read and no out-of-band modification in between, is
\* not rejected as stale and goes on to the permission request.
C15_RewriteNotStale ==
    \A r \in Procs :
        Rewrites(r) =>
            /\ run[r].response.what # "stale"
            /\ run[r].pc # "stat" => run[r].guarded
            /\ Done(r) => "perm" \in Effects(r)

C15_Witness ==
    \E r \in Procs : Rewrites(r) /\ run[r].guarded /\ run[r].pc = "pending"

\* C16: of two runs on one path that passed the guard against the same last
\* read, at most one writes the file: a run that another such run has
\* overtaken with its file write does not overwrite it.
C16_NeverBothOverwrite ==
    \A r \in DOMAIN run : ~(run[r].raced /\ run[r].wrote = "ok")

\* C17: a run whose call was canceled while it waited for the permission
\* decision does not write the file, whatever the decision.
C17_CanceledNeverWrites ==
    \A r \in DOMAIN run : run[r].canceled => run[r].wrote # "ok"

\* What Run does by itself between its start and its return.
Step(r) ==
    \/ Stat(r)
    \/ Compare(r)
    \/ MkdirAll(r)
    \/ Request(r)
    \/ \E ok \in BOOLEAN : WriteFile(r, ok)
    \/ GetLatest(r)
    \/ Create(r)
    \/ Drift(r)
    \/ AppendNew(r)
    \/ Record(r)

\* C18: while a run waits for the decision on its request, a run on another
\* path is never held up: it can take its next step, and once it waits for
\* its own decision that decision can be given.
C18_PendingBlocksNoOther ==
    \A r1, r2 \in DOMAIN run :
        /\ r1 # r2
        /\ run[r1].pc = "pending"
        /\ run[r2].filePath # run[r1].filePath
        => /\ run[r2].pc \notin {"idle", "pending", "done"} => ENABLED Step(r2)
           /\ run[r2].pc = "pending" => ENABLED Resolve(r2, TRUE)

C18_Witness ==
    \E r1, r2 \in DOMAIN run :
        /\ r1 # r2
        /\ run[r1].pc = "pending"
        /\ run[r2].filePath # run[r1].filePath
        /\ run[r2].overtook
        /\ run[r2].response = RespSuccess

C20_MissingContextChangesNothing ==
    \A r \in Procs :
        run[r].pc # "idle" /\ (run[r].ctx[1] = "" \/ run[r].ctx[2] = "")
        => Effects(r) \cap {"mkdir", "write"} = {}

\* The order of a run's steps: the guard check (os.Stat), the parent
\* directory, the permission request, the file write, the version store,
\* the timestamp registry, the diagnostics.
StepOrder ==
    <<{"stat"}, {"mkdir"}, {"perm"}, {"write"}, {"create", "version"}, {"rec"}, {"diag"}>>

Rank(e) == CHOOSE i \in 1..Len(StepOrder) : e \in StepOrder[i]

\* C21: a run writes the file only after the one permission request it has
\* issued was granted, it issues at most one request, and what it does
\* comes in the order guard check, permission request, file write, version
\* store, timestamp registry, diagnostics.
C21_AuthorizedInOrder ==
    \A r \in Procs :
        LET eff == run[r].eff IN
        /\ \A i, j \in 1..Len(eff) : i < j => Rank(eff[i]) <= Rank(eff[j])
        /\ Cardinality({i \in 1..Len(eff) : eff[i] = "perm"}) <= 1
        /\ run[r].wrote = "ok" <=> "write" \in Effects(r)
        /\ "write" \in Effects(r) =>
              /\ run[r].decision = "granted"
              /\ "perm" \in Effects(r)
              /\ eff[1] = "stat"

C21_Witness ==
    \E r \in Procs :
        /\ run[r].response = RespSuccess
        /\ run[r].guarded
        /\ {"perm", "write", "version", "rec", "diag"} \subseteq Effects(r)

\* C22: whatever the diagnostics step answers, the run ends with the success
\* response; the file holds what the run wrote, the history holds the
\* versions the store accepted and the registry holds the timestamps of the
\* write (as long as nothing else has touched the path since).
C22_DiagnosticsNeverGate ==
    \A r \in Procs :
        run[r].diag # "none" =>
            /\ Done(r)
            /\ run[r].response = RespSuccess
            /\ {"write", "rec"} \subseteq Effects(r)
            /\ Versions(run[r].ctx[1], run[r].filePath) = run[r].history0 \o run[r].stored
            /\ ~run[r].disturbed =>
                  /\ files[run[r].filePath].exists
                  /\ files[run[r].filePath].content = run[r].content
                  /\ lastWrite[run[r].filePath] >= files[run[r].filePath].modTime
                  /\ lastRead[run[r].filePath] >= files[run[r].filePath].modTime

C22_Witness ==
    \E r \in Procs :
        run[r].diag \in {"timeout", "failed"} /\ run[r].response = RespSuccess

\* C23: when a run that has written the file returns, the registry holds a
\* last-write and a last-read time for the path that are not earlier than
\* the file's modification time (as long as nothing else has touched the
\* path since the write).
C23_TimestampsFollowWrite ==
    \A r \in Procs :
        Done(r) /\ run[r].wrote = "ok" /\ ~run[r].disturbed =>
            /\ lastWrite[run[r].filePath] >= files[run[r].filePath].modTime
            /\ lastRead[run[r].filePath] >= files[run[r].filePath].modTime

RunsOn(p) == {r \in DOMAIN run : run[r].pc # "idle" /\ run[r].filePath = p}

\* C24: when every run on a path has ended with success, the store having
\* accepted every version it was handed, and the file is as the agent wrote
\* it last, the latest version of the session for the path is the content
\* on disk.
C24_LatestVersionIsOnDisk ==
    \A p \in FilePaths :
        /\ RunsOn(p) # {}
        /\ \A r \in RunsOn(p) :
              run[r].response = RespSuccess /\ run[r].stored = run[r].asked
        /\ files[p].exists /\ ~files[p].ext
        => LET h == history[<<"s1", p>>] IN
           h # <<>> /\ h[Len(h)] = files[p].content

\* The path lies in the tree of the directory: it is the directory or
\* continues it after a separator.
Inside(filePath, rootDir) ==
    filePath = rootDir \/ HasPrefix(filePath, rootDir \o <<"/">>)

\* C26: the path of the permission request is the working directory
\* exactly when the target lies inside the working directory tree, and the
\* target's parent directory otherwise.
C26_PermissionScope ==
    scope.pc = "request" =>
        /\ scope.permissionPath = RootDir <=> Inside(scope.filePath, RootDir)
        /\ ~Inside(scope.filePath, RootDir) =>
              scope.permissionPath = DirOf(scope.filePath)

\* The local models registered.
LocalRegistered ==
    {id \in DOMAIN disc.SupportedModels : disc.SupportedModels[id].Provider = ProviderLocal}

\* C27: with LOCAL_ENDPOINT set, after init a local model is registered and
\* the default model of each of the four agents is the id of a registered
\* local model, whatever the parse and the two endpoints gave; v1/models is
\* consulted only after api/v0/models yielded no supported model.
C27_DiscoveryYieldsModel ==
    /\ (disc.pc = "done" /\ disc.endpoint # "") =>
          /\ LocalRegistered # {}
          /\ \A a \in Agents : disc.defaults[a] \in LocalRegistered
    /\ (disc.pc # "off" /\ \E k \in 1..Len(disc.consulted) : disc.consulted[k] = localModelsPath) =>
          /\ disc.consulted = <<lmStudioBetaModelsPath, localModelsPath>>
          /\ disc.beta = <<>>

\* Both endpoints were consulted and gave nothing; the hardcoded model is
\* registered and is the default.
C27_Witness ==
    /\ disc.pc = "done"
    /\ disc.consulted = <<lmStudioBetaModelsPath, localModelsPath>>
    /\ disc.via = "hardcoded"
    /\ disc.defaults["title"] = "local.Qwen3-32B"
    /\ "local.Qwen3-32B" \in LocalRegistered

\* The models of the list the loop has dealt with.
Handled ==
    IF disc.pc = "done" THEN Len(disc.models)
    ELSE IF disc.pc = "register" THEN disc.i - 1 ELSE 0

\* C28: after loadLocalModels every model of the list is registered under
\* "local." followed by its ID, and the default model of the four agents is
\* the converted id of the last model of the list that is the first one or
\* is loaded.
C28_DefaultSelection ==
    Handled > 0 =>
        /\ \A k \in 1..Handled :
              LET id == "local." \o disc.models[k].ID
              IN /\ id \in DOMAIN disc.SupportedModels
                 /\ disc.SupportedModels[id].ID = id
                 /\ disc.SupportedModels[id].APIModel = disc.models[k].ID
        /\ LET last == CHOOSE k \in 1..Handled :
                           /\ k = 1 \/ disc.models[k].State = "loaded"
                           /\ \A j \in (k + 1)..Handled : disc.models[j].State # "loaded"
           IN \A a \in Agents : disc.defaults[a] = "local." \o disc.models[last].ID

\* Two loaded models with different IDs: the second is the default.
C28_Witness ==
    /\ disc.pc = "done"
    /\ Len(disc.models) = 2
    /\ disc.models[1].State = "loaded"
    /\ disc.models[2].State = "loaded"
    /\ disc.models[1].ID # disc.models[2].ID
    /\ disc.defaults["coder"] = "local." \o disc.models[2].ID

====
